---- MODULE Spec2Model ----
(***************************************************************************)
(* A model of the tree_regularization support code:                        *)
(*   src/src/trainer/collate.py  VarLengthCollate (array merge)            *)
(*   src/src/vocabulary.py       WordVocabulary, CharVocabulary            *)
(* Three specifications share the module: SpecCollate, SpecWord, SpecChar. *)
(* Python's None is modelled by the empty set and a present value x by     *)
(* {x} (an Optional); dimensions are 0-based as in the code and sequences  *)
(* are 1-based, so dimension j of a shape s is s[j + 1].                   *)
(***************************************************************************)
EXTENDS Integers, Sequences, FiniteSets, TLC

VARIABLES
    batch,          \* collate: the List[torch.Tensor] of _merge_var_len_array (the shapes)
    batch_dim,      \* collate: self.batch_dim
    ignore_symbol,  \* collate: self.ignore_symbol (Optional)
    out,            \* collate: the output tensor
    different,      \* collate: the per-dimension flags of _measure_array_max_dim
    i,              \* collate: the index of the element the copy loop is at
    bdim,           \* collate: the dimension the last iteration sliced along (Optional)
    pc,             \* collate: "start", "loop", "done" or "error" (an exception)
    wv,             \* word: the WordVocabulary instance
    origin,         \* word: "ctor" while wv is the result of constructors and + only
    cv,             \* char: the CharVocabulary instance
    op,             \* vocabularies: the last operation
    arg,            \* vocabularies: its argument (of +: the operands' tokens and longer length)
    res             \* vocabularies: its result

vars == <<batch, batch_dim, ignore_symbol, out, different, i, bdim, pc,
          wv, origin, cv, op, arg, res>>
collateVars == <<batch, batch_dim, ignore_symbol, out, different, i, bdim, pc>>
vocabVars == <<wv, origin, cv, op, arg, res>>

\* Bounds of the model.
MaxRank == 2
MaxSize == 2
MaxBatch == 2

None == {}
Some(x) == {x}
Get(o) == CHOOSE x \in o : TRUE

Max(a, b) == IF a >= b THEN a ELSE b
Min(a, b) == IF a <= b THEN a ELSE b

----------------------------------------------------------------------------
(* Tensors: [shape |-> <<n0, n1, ..>>, data |-> [index tuples -> values]]. *)

RECURSIVE Idx(_)
Idx(s) ==
    IF s = <<>> THEN {<<>>}
    ELSE {Append(p, k) : p \in Idx(SubSeq(s, 1, Len(s) - 1)), k \in 0..(s[Len(s)] - 1)}

\* Python's l[:k] and l[k:] for k >= 0.
Take(l, k) == SubSeq(l, 1, Min(k, Len(l)))
Drop(l, k) == SubSeq(l, Min(k, Len(l)) + 1, Len(l))

InsertAt(l, k, x) == Take(l, k) \o <<x>> \o Drop(l, k)
RemoveAt(l, k) == Take(l, k) \o Drop(l, k + 1)

RECURSIVE Enc(_)
Enc(idx) == IF idx = <<>> THEN 0 ELSE 10 * Enc(SubSeq(idx, 1, Len(idx) - 1)) + idx[Len(idx)]

\* The content of element n of a batch: every cell holds a value of its own.
Label(n, idx) == 100 * n + Enc(idx) + 1

Tensor(n, shape) == [shape |-> shape, data |-> [x \in Idx(shape) |-> Label(n, x)]]

RECURSIVE Shapes(_)
Shapes(r) ==
    IF r = 0 THEN {<<>>}
    ELSE {Append(s, k) : s \in Shapes(r - 1), k \in 1..MaxSize}

RECURSIVE ShapeLists(_, _)
ShapeLists(r, n) ==
    IF n = 0 THEN {<<>>}
    ELSE {Append(l, s) : l \in ShapeLists(r, n - 1), s \in Shapes(r)}

\* The batches of the model, each as the list of the shapes of its tensors; the
\* tensor at position k of the list b is Element(b, k).
Batches == UNION {ShapeLists(r, n) : r \in 0..MaxRank, n \in 1..MaxBatch}

Element(b, k) == Tensor(k - 1, b[k])

IgnoreSymbols == {None, Some(-1)}

\* A view of a tensor, as strided storage gives it: its shape, the dimension of
\* the tensor each dimension of the view runs along, and the index of the
\* tensor's cell that the view's first cell is.
ViewOf(t) ==
    [ok |-> TRUE, shape |-> t.shape,
     dims |-> [k \in 1..Len(t.shape) |-> k - 1],
     base |-> [k \in 1..Len(t.shape) |-> 0]]
BadView == [ok |-> FALSE, shape |-> <<>>, dims |-> <<>>, base |-> <<>>]

\* Tensor.narrow(dim, start, length)
narrow(w, dim, start, length) ==
    IF ~w.ok \/ dim >= Len(w.shape) THEN BadView
    ELSE IF start + length > w.shape[dim + 1] THEN BadView
    ELSE [w EXCEPT !.shape[dim + 1] = length,
                   !.base[w.dims[dim + 1] + 1] = @ + start]

\* Tensor.squeeze(dim)
squeeze(w, dim) ==
    IF ~w.ok \/ dim >= Len(w.shape) THEN BadView
    ELSE IF w.shape[dim + 1] # 1 THEN w
    ELSE [w EXCEPT !.shape = RemoveAt(w.shape, dim),
                   !.dims = RemoveAt(w.dims, dim)]

\* The cell of the tensor that the cell y of the view w is.
TensorIdx(w, y) ==
    [q \in 1..Len(w.base) |->
        IF \E k \in 1..Len(w.dims) : w.dims[k] = q - 1
        THEN w.base[q] + y[CHOOSE k \in 1..Len(w.dims) : w.dims[k] = q - 1]
        ELSE w.base[q]]

\* Whether a tensor of shape src broadcasts to shape dst (Tensor.copy_).
Broadcastable(src, dst) ==
    /\ Len(src) <= Len(dst)
    /\ \A k \in 1..Len(src) :
          LET d == dst[Len(dst) - Len(src) + k]
          IN src[k] = d \/ src[k] = 1

\* The index of src that the index y of dst reads under broadcasting.
BroadcastIdx(src, dst, y) ==
    [k \in 1..Len(src) |->
        IF src[k] = 1 THEN 0 ELSE y[Len(dst) - Len(src) + k]]

\* Tensor.copy_(d) on the view w of the tensor o: the tensor o afterwards.
copy_(o, w, d) ==
    LET written == {<<TensorIdx(w, y), d.data[BroadcastIdx(d.shape, w.shape, y)]>> :
                        y \in Idx(w.shape)}
    IN [o EXCEPT !.data =
          [x \in {c[1] : c \in written} |-> (CHOOSE c \in written : c[1] = x)[2]] @@ o.data]

\* VarLengthCollate._measure_array_max_dim: <<s, different>>
RECURSIVE MeasureFrom(_, _, _, _)
MeasureFrom(b, k, s, diff) ==
    IF k > Len(b) THEN <<s, diff>>
    ELSE LET ns == b[k]
         IN MeasureFrom(b, k + 1,
                [j \in 1..Len(s) |-> Max(s[j], ns[j])],
                [j \in 1..Len(s) |-> diff[j] \/ s[j] # ns[j]])

_measure_array_max_dim(b) ==
    MeasureFrom(b, 2, b[1], [j \in 1..Len(b[1]) |-> FALSE])

\* Lines 27-29: the output shape and the storage filled with the pad value.
OutShape(max_size, bd, n) == Take(max_size, bd) \o <<n>> \o Drop(max_size, bd)

PadValue(sym) == IF sym # None THEN Get(sym) ELSE 0

NewOut(s, sym) == [shape |-> s, data |-> [x \in Idx(s) |-> PadValue(sym)]]

\* Line 31 without its test: the slice always taken along dimension 0.
SliceDimZero(o, bd) == 0

\* Line 31: the dimension the element's slice is taken along.
SliceDim(o, bd) == IF Len(o.shape) > bd THEN bd ELSE 0

\* Lines 33-35: narrow every differing dimension to the element's size.
RECURSIVE NarrowDiff(_, _, _, _)
NarrowDiff(w, diff, d, j) ==
    IF j >= Len(diff) THEN w
    ELSE NarrowDiff(IF diff[j + 1] THEN narrow(w, j, 0, d.shape[j + 1]) ELSE w,
                    diff, d, j + 1)

\* Lines 31-35: the view of out that element n is copied into.
ElementView(o, bd, diff, n, d) ==
    LET bd0 == SliceDim(o, bd)
    IN NarrowDiff(squeeze(narrow(ViewOf(o), bd0, n, 1), bd0), diff, d, 0)

\* Lines 26-29 of _merge_var_len_array.
Allocate ==
    /\ pc = "start"
    /\ \E m \in {_measure_array_max_dim(batch)} :
          /\ different' = m[2]
          /\ out' = NewOut(OutShape(m[1], batch_dim, Len(batch)), ignore_symbol)
    /\ i' = 0
    /\ pc' = "loop"
    /\ UNCHANGED <<batch, batch_dim, ignore_symbol, bdim>>
    /\ UNCHANGED vocabVars

\* One iteration of the loop of lines 30-37; narrow and copy_ may raise.
CopyElement ==
    /\ pc = "loop"
    /\ i < Len(batch)
    /\ \E d \in {Element(batch, i + 1)} :
       \E w \in {ElementView(out, batch_dim, different, i, d)} :
          IF w.ok /\ Broadcastable(d.shape, w.shape)
          THEN /\ out' = copy_(out, w, d)
               /\ i' = i + 1
               /\ pc' = IF i + 1 = Len(batch) THEN "done" ELSE "loop"
          ELSE /\ pc' = "error"
               /\ UNCHANGED <<out, i>>
    /\ bdim' = Some(SliceDim(out, batch_dim))
    /\ UNCHANGED <<batch, batch_dim, ignore_symbol, different>>
    /\ UNCHANGED vocabVars

----------------------------------------------------------------------------
(* WordVocabulary.  A vocabulary object is a record of its attributes;     *)
(* has_unk_index tells whether the attribute _unk_index exists yet.        *)

\* The tokens of the model, in the order Python's sorted() gives them.
Tokens == <<"!", "<UNK>", "<pad>", "<unk>", "a", "a!">>
TokenSet == {Tokens[k] : k \in 1..Len(Tokens)}

\* The whitespace-free pieces raw sentences are made of.
Chunks == {"!", "a", "a!"}

MaxSentLen == 2
MaxCorpus == 1
MaxWords == 3

RECURSIVE SeqsUpTo(_, _)
SeqsUpTo(S, n) ==
    IF n = 0 THEN {<<>>}
    ELSE LET shorter == SeqsUpTo(S, n - 1)
         IN shorter \cup {Append(s, x) : s \in {t \in shorter : Len(t) = n - 1}, x \in S}

\* Values handed to and returned by the vocabularies, tagged with their Python
\* type: "none", "str" (raw text: its chunks, or its characters), "words" (a
\* list of str), "indices" (a list of int), "word" and "index" (a single one).
Val(kind, items) == [ok |-> TRUE, kind |-> kind, items |-> items]
Raised == [ok |-> FALSE, kind |-> "error", items |-> <<>>]
NoVal == Val("none", <<>>)
SameVal(x, y) == x.ok = y.ok /\ x.kind = y.kind /\ x.items = y.items

EmptyWords == [w \in {} |-> 0]
EmptyInv == [k \in {} |-> ""]

\* sorted(words)
RECURSIVE SortedFrom(_, _)
SortedFrom(S, k) ==
    IF k > Len(Tokens) THEN <<>>
    ELSE (IF Tokens[k] \in S THEN <<Tokens[k]>> ELSE <<>>) \o SortedFrom(S, k + 1)

sorted(S) == SortedFrom(S, 1)

_add_word(v, w) ==
    LET next_id == Cardinality(DOMAIN v.words)
    IN [v EXCEPT
          !.words = [x \in DOMAIN v.words \cup {w} |->
                        IF x = w THEN next_id ELSE v.words[x]],
          !.inv_words = [k \in DOMAIN v.inv_words \cup {next_id} |->
                        IF k = next_id THEN w ELSE v.inv_words[k]]]

RECURSIVE AddAll(_, _, _)
AddAll(v, l, k) == IF k > Len(l) THEN v ELSE AddAll(_add_word(v, l[k]), l, k + 1)

_add_set(v, S) == AddAll(v, sorted(S), 1)

\* dict.get(w, default), as an Optional
WordsGet(v, w, default) == IF w \in DOMAIN v.words THEN Some(v.words[w]) ELSE default

\* Line 36
UnkLookup(v) == WordsGet(v, "<UNK>", WordsGet(v, "<unk>", None))

\* finalize without the assertion of lines 37-38.
FinalizeUnchecked(v) == TRUE

\* Lines 37-38: the assertion of finalize
FinalizePasses(v) == v.allow_any_word => UnkLookup(v) # None

\* finalize: _unk_index is assigned before the assertion, initialized after it.
finalize(v) ==
    [v EXCEPT !.has_unk_index = TRUE,
              !.unk_index = UnkLookup(v),
              !.initialized = IF FinalizePasses(v) THEN TRUE ELSE v.initialized]

\* Lines 13-26: __init__ up to the corpus.
NewWordVocabulary(allow_any_word, split_punctuation) ==
    _add_word([words |-> EmptyWords, inv_words |-> EmptyInv,
               has_unk_index |-> FALSE, unk_index |-> None,
               allow_any_word |-> allow_any_word,
               initialized |-> FALSE,
               split_punctuation |-> split_punctuation], "<pad>")

\* re.findall(r"\w+|[^\w\s]", chunk)
RegexSplit(chunk) ==
    CASE chunk = "a!" -> <<"a", "!">>
      [] OTHER -> <<chunk>>

RECURSIVE Concat(_)
Concat(ll) == IF ll = <<>> THEN <<>> ELSE Head(ll) \o Concat(Tail(ll))

split_sentence(v, s) ==
    IF s.kind = "words" THEN s.items
    ELSE IF v.split_punctuation
         THEN Concat([k \in 1..Len(s.items) |-> RegexSplit(s.items[k])])
         ELSE s.items

Range(l) == {l[k] : k \in 1..Len(l)}

\* Lines 28-33: __init__ with a corpus; the constructor raises when finalize does.
CorpusWords(v, corpus) == UNION {Range(split_sentence(v, corpus[k])) : k \in 1..Len(corpus)}

WithCorpus(allow_any_word, split_punctuation, corpus) ==
    LET v == NewWordVocabulary(allow_any_word, split_punctuation)
    IN _add_set(v, CorpusWords(v, corpus))

\* _process_word: the index as an Optional (None can be returned), or Raised.
_process_word(v, w) ==
    IF ~v.has_unk_index THEN Raised
    ELSE LET r == WordsGet(v, w, v.unk_index)
         IN IF (r # v.unk_index) \/ v.allow_any_word THEN Val("index", <<r>>) ELSE Raised

InvNames == <<"<!INV: 0!>", "<!INV: 1!>", "<!INV: 2!>", "<!INV: 3!>", "<!INV: 4!>",
              "<!INV: 5!>", "<!INV: 6!>", "<!INV: 7!>", "<!INV: 8!>", "<!INV: 9!>">>

\* _process_index, of an Optional index
_process_index(v, o) ==
    IF o = None THEN "<!INV: None!>"
    ELSE IF Get(o) \in DOMAIN v.inv_words THEN v.inv_words[Get(o)]
    ELSE InvNames[Get(o) + 1]

__getitem__(v, item) ==
    IF item.kind = "index" THEN Val("word", <<_process_index(v, item.items[1])>>)
    ELSE _process_word(v, item.items[1])

sentence_to_indices(v, s) ==
    IF ~v.initialized THEN Raised
    ELSE LET ws == split_sentence(v, s)
             rs == [k \in 1..Len(ws) |-> _process_word(v, ws[k])]
         IN IF \E k \in 1..Len(ws) : ~rs[k].ok THEN Raised
            ELSE Val("indices", [k \in 1..Len(ws) |-> rs[k].items[1]])

indices_to_sentence(v, l) ==
    IF ~v.initialized THEN Raised
    ELSE Val("words", [k \in 1..Len(l.items) |-> _process_index(v, l.items[k])])

__call__(v, seq) ==
    IF seq.kind = "none" \/ (seq.kind \in {"words", "indices"} /\ seq.items = <<>>)
    THEN seq
    ELSE IF seq.kind \in {"str", "words"} THEN sentence_to_indices(v, seq)
    ELSE indices_to_sentence(v, seq)

__len__(v) == Cardinality(DOMAIN v.words)

\* state_dict / load_state_dict: the saved fields replace the object's.
load_state_dict(v, src) == [src EXCEPT !.initialized = TRUE]

\* __add__
__add__(self, other) ==
    finalize(_add_set(NewWordVocabulary(self.allow_any_word /\ other.allow_any_word,
                                        self.split_punctuation),
                      DOMAIN self.words \cup DOMAIN other.words))

AddPasses(self, other) ==
    FinalizePasses(_add_set(NewWordVocabulary(self.allow_any_word /\ other.allow_any_word,
                                              self.split_punctuation),
                            DOMAIN self.words \cup DOMAIN other.words))

\* The inputs of the model.
Sentences ==
    {Val("words", s) : s \in SeqsUpTo(TokenSet, MaxSentLen)}
        \cup {Val("str", s) : s \in SeqsUpTo(Chunks, MaxSentLen)}
Corpora == SeqsUpTo(Sentences, MaxCorpus)
Indices == {Some(k) : k \in 0..MaxWords}
IndexLists == {Val("indices", l) : l \in SeqsUpTo(Indices, MaxSentLen)}

\* The vocabularies a constructor call returns.
Constructed ==
    {NewWordVocabulary(a, s) : a \in BOOLEAN, s \in BOOLEAN}
        \cup {finalize(v) : v \in {u \in {WithCorpus(a, s, c) :
                                            a \in BOOLEAN, s \in BOOLEAN, c \in Corpora} :
                                      FinalizePasses(u)}}

\* Operations the vocabularies are built with; the others only read them.
\* A read leaves the vocabulary as it is and overwrites op, arg and res, so the
\* states reached are the same whether or not anything may follow a read: the
\* actions are taken from the states whose last operation built the vocabulary.
Building == op \in {"init", "_add_word", "_add_set", "finalize", "__add__", "load_state_dict"}

AddWord ==
    /\ Building
    /\ __len__(wv) < MaxWords
    /\ \E w \in TokenSet : wv' = _add_word(wv, w)
    /\ arg' = NoVal
    /\ origin' = "api"
    /\ op' = "_add_word"
    /\ res' = NoVal
    /\ UNCHANGED <<cv, collateVars>>

AddSet ==
    /\ Building
    /\ \E S \in SUBSET TokenSet :
          /\ __len__(wv) + Cardinality(S) <= MaxWords
          /\ wv' = _add_set(wv, S)
    /\ arg' = NoVal
    /\ origin' = "api"
    /\ op' = "_add_set"
    /\ res' = NoVal
    /\ UNCHANGED <<cv, collateVars>>

Finalize ==
    /\ Building
    /\ wv' = finalize(wv)
    /\ origin' = "api"
    /\ op' = "finalize"
    /\ arg' = NoVal
    /\ res' = IF FinalizePasses(wv) THEN NoVal ELSE Raised
    /\ UNCHANGED <<cv, collateVars>>

\* wv = wv + other and wv = other + wv, for a constructed other or wv itself.
Union ==
    /\ Building
    /\ \E other \in Constructed \cup {wv}, left \in BOOLEAN :
          LET x == IF left THEN wv ELSE other
              y == IF left THEN other ELSE wv
          IN /\ AddPasses(x, y)
             /\ wv' = __add__(x, y)
             /\ arg' = [tokens |-> DOMAIN x.words \cup DOMAIN y.words,
                      longest |-> Max(__len__(x), __len__(y))]
    /\ origin' = origin
    /\ op' = "__add__"
    /\ res' = NoVal
    /\ UNCHANGED <<cv, collateVars>>

LoadStateDict ==
    /\ Building
    /\ \E src \in Constructed :
          /\ src.has_unk_index
          /\ wv' = load_state_dict(wv, src)
    /\ origin' = "api"
    /\ op' = "load_state_dict"
    /\ arg' = NoVal
    /\ res' = NoVal
    /\ UNCHANGED <<cv, collateVars>>

SentenceToIndices ==
    /\ Building
    /\ \E s \in Sentences :
          /\ arg' = s
          /\ res' = sentence_to_indices(wv, s)
    /\ op' = "sentence_to_indices"
    /\ UNCHANGED <<wv, origin, cv, collateVars>>

IndicesToSentence ==
    /\ Building
    /\ \E l \in IndexLists :
          /\ arg' = l
          /\ res' = indices_to_sentence(wv, l)
    /\ op' = "indices_to_sentence"
    /\ UNCHANGED <<wv, origin, cv, collateVars>>

Call ==
    /\ Building
    /\ \E seq \in Sentences \cup IndexLists \cup {NoVal} :
          /\ arg' = seq
          /\ res' = __call__(wv, seq)
    /\ op' = "__call__"
    /\ UNCHANGED <<wv, origin, cv, collateVars>>

GetItem ==
    /\ Building
    /\ \E item \in {Val("word", <<w>>) : w \in TokenSet}
                      \cup {Val("index", <<k>>) : k \in Indices} :
          /\ arg' = item
          /\ res' = __getitem__(wv, item)
    /\ op' = "__getitem__"
    /\ UNCHANGED <<wv, origin, cv, collateVars>>

----------------------------------------------------------------------------
(* CharVocabulary.  The keys of to_index are Python values of either type: *)
(* PyStr("a") is the str "a" and PyInt(3) the int 3, which are never equal.    *)

\* The characters of the model, in the order Python's sorted() gives them.
CharOrder == <<"a", "b", "c">>
CharSet == {CharOrder[k] : k \in 1..Len(CharOrder)}

MaxStrLen == 2

PyStr(ch) == [t |-> "str", c |-> ch, n |-> 0]
PyInt(k) == [t |-> "int", c |-> "", n |-> k]
CharSyms == {PyStr(ch) : ch \in CharSet}

Pos(ch) == CHOOSE k \in 1..Len(CharOrder) : CharOrder[k] = ch
Less(x, y) == IF x.t = "int" THEN x.n < y.n ELSE Pos(x.c) < Pos(y.c)

\* sorted(chars), for a set of values of one type
RECURSIVE SortedSyms(_)
SortedSyms(S) ==
    IF S = {} THEN <<>>
    ELSE LET m == CHOOSE x \in S : \A y \in S \ {x} : Less(x, y)
         IN <<m>> \o SortedSyms(S \ {m})

\* Python's l[:k] and l[k:] for an Optional k of either sign
SliceTo(l, k) ==
    IF k = None THEN l
    ELSE IF Get(k) >= 0 THEN Take(l, Get(k))
    ELSE Take(l, Max(Len(l) + Get(k), 0))

SliceFrom(l, k) ==
    IF k = None THEN l
    ELSE IF Get(k) >= 0 THEN Drop(l, Get(k))
    ELSE Drop(l, Max(Len(l) + Get(k), 0))

\* Lines 134-139 with ignore_char left where sorting puts it.
CharListUnpinned(ignore_char, ignore_char_idx, chars) == SortedSyms(chars \cup ignore_char)

\* Lines 134-139: the list the indices are assigned from
CharList(ignore_char, ignore_char_idx, chars) ==
    IF ignore_char # None
    THEN LET chars_noig == SortedSyms(chars \ ignore_char)
         IN SliceTo(chars_noig, ignore_char_idx) \o <<Get(ignore_char)>>
                \o SliceFrom(chars_noig, ignore_char_idx)
    ELSE SortedSyms(chars)

\* Lines 141-144; in a dict comprehension the last entry of a key wins.
from_set(v, chars) ==
    LET l == CharList(v.ignore_char, v.ignore_char_idx, chars)
    IN [v EXCEPT
          !.to_index = [x \in Range(l) |->
                           CHOOSE k \in 0..(Len(l) - 1) :
                               /\ l[k + 1] = x
                               /\ \A m \in 0..(Len(l) - 1) : l[m + 1] = x => m <= k],
          !.from_index = [k \in 0..(Len(l) - 1) |-> l[k + 1]],
          !.initialized = TRUE]

EmptyToIndex == [x \in {} |-> 0]
EmptyFromIndex == [k \in {} |-> PyStr("a")]

\* __init__; chars is an Optional set
CharVocabulary(chars, ignore_char, ignore_char_idx) ==
    LET v == [initialized |-> FALSE, ignore_char |-> ignore_char,
              ignore_char_idx |-> ignore_char_idx,
              to_index |-> EmptyToIndex, from_index |-> EmptyFromIndex]
    IN IF chars # None THEN from_set(v, Get(chars)) ELSE v

CharLen(v) == Cardinality(DOMAIN v.to_index)

str_to_ind(v, data) ==
    IF \E k \in 1..Len(data.items) : PyStr(data.items[k]) \notin DOMAIN v.to_index
    THEN Raised
    ELSE Val("indices", [k \in 1..Len(data.items) |-> v.to_index[PyStr(data.items[k])]])

\* "".join raises on a value that is no str
ind_to_str(v, data) ==
    IF \E k \in 1..Len(data.items) : data.items[k] \notin DOMAIN v.from_index
    THEN Raised
    ELSE IF \E k \in 1..Len(data.items) : v.from_index[data.items[k]].t # "str"
    THEN Raised
    ELSE Val("str", [k \in 1..Len(data.items) |-> v.from_index[data.items[k]].c])

CharCallOf(v, seq) ==
    IF ~v.initialized THEN Raised
    ELSE IF seq.kind = "none" \/ (seq.kind = "indices" /\ seq.items = <<>>) THEN seq
    ELSE IF seq.kind = "str" THEN str_to_ind(v, seq)
    ELSE ind_to_str(v, seq)

FnRange(f) == {f[x] : x \in DOMAIN f}

\* CharVocabulary.__add__
CharAdd(self, other) ==
    CharVocabulary(Some({PyInt(k) : k \in FnRange(self.to_index) \cup FnRange(other.to_index)}),
                   None, Some(0))

CharIdxRange == {None} \cup {Some(k) : k \in (0 - 1)..(Len(CharOrder) + 1)}

CharVocabularies ==
    {CharVocabulary(chars, ig, idx) :
        chars \in {None} \cup {Some(S) : S \in SUBSET CharSyms},
        ig \in {None} \cup {Some(x) : x \in CharSyms},
        idx \in CharIdxRange}

Strings == {Val("str", s) : s \in SeqsUpTo(CharSet, MaxStrLen)}
CharIndexLists == {Val("indices", l) : l \in SeqsUpTo(0..Len(CharOrder), MaxStrLen)}

\* load_state_dict(state): from_set(state["chars"]) on the object as it is
CharLoadStateDict ==
    /\ Building
    /\ \E chars \in SUBSET CharSyms :
          /\ cv' = from_set(cv, chars)
    /\ arg' = NoVal
    /\ op' = "load_state_dict"
    /\ res' = NoVal
    /\ UNCHANGED <<wv, origin, collateVars>>

\* cv = cv + other and cv = other + cv; __add__ reads to_index of both
CharUnion ==
    /\ Building
    /\ \E other \in CharVocabularies \cup {cv}, left \in BOOLEAN :
          LET x == IF left THEN cv ELSE other
              y == IF left THEN other ELSE cv
          IN /\ x.initialized /\ y.initialized
             /\ cv' = CharAdd(x, y)
             /\ arg' = [tokens |-> DOMAIN x.to_index \cup DOMAIN y.to_index,
                      longest |-> Max(CharLen(x), CharLen(y))]
    /\ op' = "__add__"
    /\ res' = NoVal
    /\ UNCHANGED <<wv, origin, collateVars>>

CharCall ==
    /\ Building
    /\ \E seq \in Strings \cup CharIndexLists \cup {NoVal} :
          /\ arg' = seq
          /\ res' = CharCallOf(cv, seq)
    /\ op' = "__call__"
    /\ UNCHANGED <<wv, origin, cv, collateVars>>

\* The vocabulary called on what its last call returned; arg stays the first input.
CharCallBack ==
    /\ op = "__call__"
    /\ res.ok
    /\ res' = CharCallOf(cv, res)
    /\ op' = "__call__ twice"
    /\ UNCHANGED <<wv, origin, cv, arg, collateVars>>

\* indices_to_sentence on what sentence_to_indices returned; arg stays the sentence.
DecodeEncoded ==
    /\ op = "sentence_to_indices"
    /\ res.ok
    /\ res' = indices_to_sentence(wv, res)
    /\ op' = "decode(encode)"
    /\ UNCHANGED <<wv, origin, cv, arg, collateVars>>

----------------------------------------------------------------------------
(* The three specifications. Each leaves the other components idle.        *)

\* A VarLengthCollate and the batch its merge is called with.
CollateInit ==
    /\ batch \in Batches
    /\ batch_dim \in 0..(MaxRank + 1)
    /\ ignore_symbol \in IgnoreSymbols
    /\ out = NewOut(<<>>, None)
    /\ different = <<>>
    /\ i = 0
    /\ bdim = None
    /\ pc = "start"
    \* no vocabulary call
    /\ wv = NewWordVocabulary(FALSE, TRUE)
    /\ origin = "ctor"
    /\ cv = CharVocabulary(None, None, Some(0))
    /\ op = "init"
    /\ arg = NoVal
    /\ res = NoVal

\* A WordVocabulary as its constructor returned it.
WordInit ==
    /\ wv \in Constructed
    /\ origin = "ctor"
    /\ op = "init"
    /\ arg = NoVal
    /\ res = NoVal
    \* no character vocabulary and no merge
    /\ cv = CharVocabulary(None, None, Some(0))
    /\ batch = <<>>
    /\ batch_dim = 1
    /\ ignore_symbol = Some(0)
    /\ out = NewOut(<<>>, None)
    /\ different = <<>>
    /\ i = 0
    /\ bdim = None
    /\ pc = "idle"

\* A CharVocabulary as its constructor returned it.
CharInit ==
    /\ cv \in CharVocabularies
    /\ op = "init"
    /\ arg = NoVal
    /\ res = NoVal
    \* no word vocabulary call and no merge
    /\ wv = NewWordVocabulary(FALSE, TRUE)
    /\ origin = "ctor"
    /\ batch = <<>>
    /\ batch_dim = 1
    /\ ignore_symbol = Some(0)
    /\ out = NewOut(<<>>, None)
    /\ different = <<>>
    /\ i = 0
    /\ bdim = None
    /\ pc = "idle"

CollateNext == Allocate \/ CopyElement

WordNext ==
    \/ AddWord \/ AddSet \/ Finalize \/ Union \/ LoadStateDict
    \/ SentenceToIndices \/ IndicesToSentence \/ Call \/ GetItem \/ DecodeEncoded

CharNext == CharLoadStateDict \/ CharUnion \/ CharCall \/ CharCallBack

SpecCollate == CollateInit /\ [][CollateNext]_vars
SpecWord == WordInit /\ [][WordNext]_vars
SpecChar == CharInit /\ [][CharNext]_vars

----------------------------------------------------------------------------
(* The array merge: claims C1 and C9.                                      *)

Rank == Len(batch[1])
InRange == batch_dim <= Rank
ElementShapes == {batch[k] : k \in 1..Len(batch)}

\* The per-dimension maximum of the element shapes.
MaxShape ==
    [j \in 1..Rank |->
        CHOOSE m \in {s[j] : s \in ElementShapes} : \A s \in ElementShapes : s[j] <= m]

\* What the cell x of the output holds when the batch dimension is at position p:
\* the cell of element x[p] when x lies within that element's extent, else the pad.
ExpectedCell(x, p) ==
    LET n == x[p + 1]
        rest == RemoveAt(x, p)
    IN IF \A k \in 1..Rank : rest[k] < batch[n + 1][k]
       THEN Label(n, rest)
       ELSE PadValue(ignore_symbol)

\* C1: for batch_dim in 0..rank the merge completes with the shape
\* max_shape[:batch_dim] + [count] + max_shape[batch_dim:], holds every element
\* exactly in its slice, the pad value everywhere else, and no pad cell when
\* all shapes are the same.
C1_MergePadsToMaxShape ==
    (pc # "idle" /\ InRange) =>
        /\ pc # "error"
        /\ pc = "done" =>
              /\ out.shape = InsertAt(MaxShape, batch_dim, Len(batch))
              /\ \A x \in Idx(out.shape) : out.data[x] = ExpectedCell(x, batch_dim)
              /\ Cardinality(ElementShapes) = 1 =>
                    \A x \in Idx(out.shape) :
                        \E k \in 1..Len(batch) : \E y \in Idx(batch[k]) :
                            out.data[x] = Label(k - 1, y)

\* Two elements that differ in both of their two dimensions, merged at batch_dim 1:
\* padding along both.
C1_Witness ==
    /\ pc = "done"
    /\ batch_dim = 1
    /\ Len(batch) = 2
    /\ batch = << <<1, 2>>, <<2, 1>> >>
    /\ different = <<TRUE, TRUE>>
    /\ out.shape = <<2, 2, 2>>
    /\ out.data[<<1, 0, 0>>] = PadValue(ignore_symbol)
    /\ out.data[<<0, 0, 1>>] = Label(0, <<0, 1>>)

\* C9: for batch_dim > rank the merge completes, the dimension sliced along is
\* the output dimension that holds the batch count, and element n is recoverable
\* from the n-th slice along the batch dimension.
C9_FallbackSlicesBatchDim ==
    (pc # "idle" /\ ~InRange) =>
        /\ pc # "error"
        /\ bdim # None => out.shape[Get(bdim) + 1] = Len(batch)
        /\ pc = "done" =>
              \A x \in Idx(out.shape) : out.data[x] = ExpectedCell(x, Min(batch_dim, Rank))

----------------------------------------------------------------------------
(* WordVocabulary: claims C2, C3, C7, C8, C10 (and the word half of C5).   *)

OtherWords == sorted(DOMAIN wv.words \ {"<pad>"})

\* C2: in a vocabulary made by constructors and + only, "<pad>" has index 0,
\* index 0 decodes to "<pad>", and the other tokens hold 1..n in sorted order.
C2_PadIsIndexZero ==
    origin = "ctor" =>
        /\ "<pad>" \in DOMAIN wv.words /\ wv.words["<pad>"] = 0
        /\ 0 \in DOMAIN wv.inv_words /\ wv.inv_words[0] = "<pad>"
        /\ \A k \in 1..Len(OtherWords) : wv.words[OtherWords[k]] = k

KnownSentence ==
    /\ arg.kind = "words"
    /\ Range(arg.items) \subseteq DOMAIN wv.words

\* C3: in an initialized vocabulary made by constructors and + only, a list of
\* tokens of the vocabulary is encoded without failure, and decoding the
\* indices returns the list.
C3_RoundTrip ==
    (origin = "ctor" /\ wv.initialized) =>
        /\ (op = "sentence_to_indices" /\ KnownSentence) => res.ok
        /\ (op = "decode(encode)" /\ KnownSentence) => SameVal(res, arg)

HasUnkEntry(v) == "<UNK>" \in DOMAIN v.words \/ "<unk>" \in DOMAIN v.words

\* The operations that leave a vocabulary as finalize made it.
Finalizing == {"init", "finalize", "__add__", "load_state_dict"}

\* An encode, by the step, of the single word w that a finalized vocabulary
\* lacks: through __getitem__ or as a one-word sentence.
EncodesAbsent(w) ==
    /\ wv.initialized
    /\ op \in Finalizing
    /\ w \notin DOMAIN wv.words
    /\ \/ op' = "__getitem__" /\ arg' = Val("word", <<w>>)
       \/ op' = "sentence_to_indices" /\ arg' = Val("words", <<w>>)

ReturnsIndex(r, o) == r.ok /\ r.kind \in {"index", "indices"} /\ r.items = <<o>>

\* C7: encoding a word absent from a finalized vocabulary returns the index of
\* the unknown token ("<UNK>", else "<unk>") when such an entry exists and
\* allow_any_word is on, fails otherwise, and leaves the vocabulary as it was.
C7_AbsentWord ==
    [][\A w \in TokenSet :
          EncodesAbsent(w) =>
              /\ wv' = wv
              /\ IF HasUnkEntry(wv) /\ wv.allow_any_word
                 THEN ReturnsIndex(res', Some(wv.words[IF "<UNK>" \in DOMAIN wv.words
                                                        THEN "<UNK>" ELSE "<unk>"]))
                 ELSE ~res'.ok]_vars

\* An absent word was looked up with the fallback on, and the unknown index came back.
C7_Witness ==
    /\ op = "__getitem__"
    /\ arg = Val("word", <<"a">>)
    /\ "a" \notin DOMAIN wv.words
    /\ wv.initialized /\ wv.allow_any_word
    /\ "<unk>" \in DOMAIN wv.words
    /\ res.ok /\ res.items = <<Some(wv.words["<unk>"])>>

Lookups == {"sentence_to_indices", "indices_to_sentence", "__call__", "__getitem__"}

\* C8: before any corpus load, finalize, union or load_state_dict every lookup
\* of non-empty input fails; in an initialized vocabulary decoding never fails
\* and encoding tokens of the vocabulary is not refused as uninitialized.
C8_UninitializedRefuses ==
    (op \in Lookups /\ arg.kind # "none" /\ arg.items # <<>>) =>
        /\ (~wv.initialized /\ ~wv.has_unk_index) => ~res.ok
        /\ (wv.initialized /\ arg.kind \in {"indices", "index"}) => res.ok

\* C10: words is injective onto 0..len-1 and inv_words is its inverse.
C10_WordsBijective ==
    /\ \A x, y \in DOMAIN wv.words : wv.words[x] = wv.words[y] => x = y
    /\ {wv.words[x] : x \in DOMAIN wv.words} = 0..(__len__(wv) - 1)
    /\ DOMAIN wv.inv_words = 0..(__len__(wv) - 1)
    /\ \A x \in DOMAIN wv.words : wv.inv_words[wv.words[x]] = x

----------------------------------------------------------------------------
(* CharVocabulary: claims C4, C5, C6.                                      *)

OverAlphabet(s) == \A k \in 1..Len(s.items) : PyStr(s.items[k]) \in DOMAIN cv.to_index

\* C4: calling an initialized vocabulary on a string over its alphabet and then
\* on the result returns the string, the empty string included.
C4_CallRoundTrip ==
    (cv.initialized /\ op \in {"__call__", "__call__ twice"}
        /\ arg.kind = "str" /\ OverAlphabet(arg)) =>
        /\ res.ok
        /\ op = "__call__ twice" => SameVal(res, arg)

\* C5: a + b is at least as long as a and as b, and every token of a and of b
\* is a token of a + b that it encodes (cv is initialized after a character
\* union; under SpecWord it never is, and the union is of word vocabularies).
C5_UnionHoldsBoth ==
    op = "__add__" =>
        IF cv.initialized
           THEN /\ CharLen(cv) >= arg.longest
                /\ \A x \in arg.tokens :
                      /\ x \in DOMAIN cv.to_index
                      /\ x.t = "str" => str_to_ind(cv, Val("str", <<x.c>>)).ok
           ELSE /\ __len__(wv) >= arg.longest
                /\ \A w \in arg.tokens :
                      /\ w \in DOMAIN wv.words
                      /\ _process_word(wv, w).ok

Others == DOMAIN cv.to_index \ cv.ignore_char

\* C6: with an ignore_char and an ignore_char_idx in 0..n-1, n the size of the
\* alphabet, ignore_char has index ignore_char_idx, the indices are 0..n-1
\* without repetition, the other characters are in sorted order among
\* themselves, and to_index and from_index are inverses.
C6_IgnoreCharPinned ==
    (/\ cv.initialized
     /\ cv.ignore_char # None
     /\ cv.ignore_char_idx # None
     /\ Get(cv.ignore_char_idx) \in 0..(CharLen(cv) - 1)) =>
        /\ cv.to_index[Get(cv.ignore_char)] = Get(cv.ignore_char_idx)
        /\ FnRange(cv.to_index) = 0..(CharLen(cv) - 1)
        /\ \A x, y \in Others : Less(x, y) => cv.to_index[x] < cv.to_index[y]
        /\ DOMAIN cv.from_index = 0..(CharLen(cv) - 1)
        /\ \A x \in DOMAIN cv.to_index : cv.from_index[cv.to_index[x]] = x
        /\ \A k \in DOMAIN cv.from_index : cv.to_index[cv.from_index[k]] = k

\* "a" pinned behind "b" and "c" by load_state_dict.
C6_Witness ==
    /\ op = "load_state_dict"
    /\ cv.ignore_char = Some(PyStr("a"))
    /\ cv.ignore_char_idx = Some(2)
    /\ DOMAIN cv.to_index = CharSyms
    /\ cv.to_index[PyStr("a")] = 2
    /\ cv.to_index[PyStr("b")] = 0
    /\ cv.to_index[PyStr("c")] = 1

====
